---- MODULE Spec2Model ----
(***************************************************************************)
(* Claire (claire.js): the per-tab registry of Request records, the        *)
(* browser event listeners that maintain it, and the Request methods they  *)
(* call.  JavaScript values are encoded as records of one shape            *)
(* [t, s, n]: t is the typeof tag, s the characters of a string (or the    *)
(* elements of an array of strings), n the value of a number or boolean.   *)
(*                                                                         *)
(* Spec is the registry of several tabs that load one page.  DecodeSpec    *)
(* and IconSpec run the same listeners for one tab: DecodeSpec over pages  *)
(* that differ in their header list and CF-RAILGUN value, IconSpec over    *)
(* pages that differ in what the icon shows.  IconFairSpec adds the        *)
(* fairness of the setIcon callback.                                       *)
(***************************************************************************)
EXTENDS Integers, Sequences, FiniteSets, TLC

VARIABLES requests, pendingQueries, pendingIcons, last

vars == <<requests, pendingQueries, pendingIcons, last>>

\* ------------------------------------------------------------------ bounds
\* tab ids handed out by the browser
MaxTab == 3
\* callbacks (sendMessage replies, setIcon completions) in flight at one time
MaxPending == 1
\* tabs that have an entry in requests at one time
MaxTracked == 2

Tabs == 1..MaxTab

\* ------------------------------------------------------- JavaScript values
Undefined == [t |-> "undefined", s |-> <<>>, n |-> 0]
NaN == [t |-> "NaN", s |-> <<>>, n |-> 0]
Str(chars) == [t |-> "string", s |-> chars, n |-> 0]
Num(k) == [t |-> "number", s |-> <<>>, n |-> k]
Bool(b) == [t |-> "boolean", s |-> <<>>, n |-> IF b THEN 1 ELSE 0]
Arr(elems) == [t |-> "array", s |-> elems, n |-> 0]

\* the truthiness test of `if (v)`
Truthy(v) ==
    CASE v.t = "undefined" -> FALSE
      [] v.t = "NaN" -> FALSE
      [] v.t = "boolean" -> v.n = 1
      [] v.t = "number" -> v.n # 0
      [] v.t = "string" -> v.s # <<>>
      [] OTHER -> TRUE

\* String.prototype.toUpperCase on the letters that occur in header names
UpperChar(c) ==
    CASE c = "a" -> "A" [] c = "c" -> "C" [] c = "e" -> "E" [] c = "f" -> "F"
      [] c = "g" -> "G" [] c = "i" -> "I" [] c = "l" -> "L" [] c = "n" -> "N"
      [] c = "r" -> "R" [] c = "s" -> "S" [] c = "u" -> "U" [] c = "v" -> "V"
      [] c = "y" -> "Y"
      [] OTHER -> c

toUpperCase(chars) == [i \in 1..Len(chars) |-> UpperChar(chars[i])]

\* String.prototype.indexOf(needle) !== -1
Contains(chars, needle) ==
    \E i \in 0..(Len(chars) - Len(needle)) :
        \A j \in 1..Len(needle) : chars[i + j] = needle[j]

\* String.prototype.split(' '): the tokens between single spaces
RECURSIVE split(_)
split(chars) ==
    IF \A i \in 1..Len(chars) : chars[i] # " "
    THEN <<chars>>
    ELSE LET p == CHOOSE i \in 1..Len(chars) :
                      /\ chars[i] = " "
                      /\ \A j \in 1..(i - 1) : chars[j] # " "
         IN  <<SubSeq(chars, 1, p - 1)>> \o split(SubSeq(chars, p + 1, Len(chars)))

\* parts[k] of a JavaScript array (0-based): undefined past the end
At(parts, k) == IF k + 1 \in 1..Len(parts) THEN Str(parts[k + 1]) ELSE Undefined

DigitChars == <<"0", "1", "2", "3", "4", "5", "6", "7", "8", "9">>
IsDigit(c) == \E d \in 1..10 : DigitChars[d] = c
DigitVal(c) == (CHOOSE d \in 1..10 : DigitChars[d] = c) - 1

RECURSIVE DigitsValue(_)
DigitsValue(chars) ==
    IF chars = <<>> THEN 0
    ELSE 10 * DigitsValue(SubSeq(chars, 1, Len(chars) - 1)) + DigitVal(chars[Len(chars)])

\* the longest prefix of chars made of digits
RECURSIVE DigitPrefix(_)
DigitPrefix(chars) ==
    IF chars # <<>> /\ IsDigit(Head(chars))
    THEN <<Head(chars)>> \o DigitPrefix(Tail(chars))
    ELSE <<>>

\* the String(v) conversion that parseInt applies to its argument
ToStringChars(v) ==
    IF v.t = "string" THEN v.s ELSE <<"u", "n", "d", "e", "f", "i", "n", "e", "d">>

\* parseInt(v, 10): optional sign, then the leading digits; NaN if there are none
parseInt(v) ==
    LET chars == ToStringChars(v)
        neg == chars # <<>> /\ Head(chars) = "-"
        signed == chars # <<>> /\ Head(chars) \in {"-", "+"}
        body == IF signed THEN Tail(chars) ELSE chars
        digits == DigitPrefix(body)
    IN  IF digits = <<>> THEN NaN
        ELSE Num(IF neg THEN 0 - DigitsValue(digits) ELSE DigitsValue(digits))

\* ToNumber(v) as applied by the binary minus: the whole string must be a
\* decimal integer literal, the empty string is 0, undefined is NaN
ToNumber(v) ==
    IF v.t # "string" THEN NaN
    ELSE LET chars == v.s
             neg == chars # <<>> /\ Head(chars) = "-"
             signed == chars # <<>> /\ Head(chars) \in {"-", "+"}
             body == IF signed THEN Tail(chars) ELSE chars
         IN  IF chars = <<>> THEN Num(0)
             ELSE IF body # <<>> /\ DigitPrefix(body) = body
                  THEN Num(IF neg THEN 0 - DigitsValue(body) ELSE DigitsValue(body))
                  ELSE NaN

RECURSIVE NatChars(_)
NatChars(k) ==
    IF k < 10 THEN <<DigitChars[k + 1]>>
    ELSE NatChars(k \div 10) \o <<DigitChars[(k % 10) + 1]>>

\* String(v) of a number, as string concatenation applies it
NumberChars(v) ==
    IF v.t = "NaN" THEN <<"N", "a", "N">>
    ELSE IF v.n < 0 THEN <<"-">> \o NatChars(0 - v.n) ELSE NatChars(v.n)

\* 100 - v
Minus100(v) == LET k == ToNumber(v) IN IF k.t = "NaN" THEN NaN ELSE Num(100 - k.n)

\* the test written as flagsBitset >= flag.position
BitSet_atLeast(a, b) == IF a.t = "NaN" THEN FALSE ELSE a.n >= b

\* (a & b) !== 0 for a single-bit b: ToInt32 of NaN is 0, otherwise bit b of
\* the two's complement of a (a modulo 2b keeps the bits up to b)
BitSet(a, b) == IF a.t = "NaN" THEN FALSE ELSE ((a.n % (2 * b)) \div b) = 1

\* ------------------------------------------------------------ string literals
SERVER == <<"S", "E", "R", "V", "E", "R">>
CF_RAILGUN == <<"C", "F", "-", "R", "A", "I", "L", "G", "U", "N">>
cloudflare_nginx == <<"c", "l", "o", "u", "d", "f", "l", "a", "r", "e", "-", "n", "g", "i", "n", "x">>
normal == <<"n", "o", "r", "m", "a", "l">>

\* a JavaScript object as a function from its own keys
EmptyObject == [k \in {} |-> Undefined]
Put(obj, key, v) == [k \in DOMAIN obj \cup {key} |-> IF k = key THEN v ELSE obj[k]]
Get(obj, key) == IF key \in DOMAIN obj THEN obj[key] ELSE Undefined

\* ------------------------------------------------- inputs of RequestCompleted
\* the response headers of an observed main-frame request
CloudFlareHeaders ==
    << [name |-> <<"S", "e", "r", "v", "e", "r">>, value |-> Str(<<"n", "g", "i", "n", "x">>)],
       [name |-> <<"S", "E", "R", "V", "E", "R">>, value |-> Str(cloudflare_nginx)],
       [name |-> <<"c", "f", "-", "r", "a", "y">>, value |-> Str(<<"r", "1">>)],
       [name |-> <<"C", "f", "-", "R", "a", "i", "l", "g", "u", "n">>,
        value |-> Str(<<"a", "b", " ", "1", "2", " ", "3", " ", "0", "5", " ", "v", "1">>)] >>

\* the pages the tabs of the registry specification load
Pages ==
    { [url |-> "http://cf/", ip |-> <<":", ":", "1">>, fromCache |-> FALSE,
       responseHeaders |-> CloudFlareHeaders] }

Details(tabId, page) ==
    [tabId |-> tabId, url |-> page.url, ip |-> page.ip, fromCache |-> page.fromCache,
     responseHeaders |-> page.responseHeaders]

\* the details objects the onCompleted events carry
CompletedDetails == {Details(t, p) : t \in Tabs, p \in Pages}

\* ------------------------------------------- inputs of the decoder specification
\* the largest and the most negative flags field of a generated header value
MaxFlags == 135
MaxNegFlags == 4
\* the longest generated list of response headers
MaxHeaders == 3

FlagValues == (0 - MaxNegFlags)..MaxFlags

\* a CF-RAILGUN value of the uncompressed form: id, flags, the word normal, version
NormalValue(k) ==
    Str(<<"a", "b", " ">> \o NumberChars(Num(k)) \o <<" ", "n", "o", "r", "m", "a", "l", " ", "v", "2">>)

\* a CF-RAILGUN value of the compressed form: id, ratio, time, flags, version
CompressedValue(k) ==
    Str(<<"a", "b", " ", "1", "2", " ", "3", " ">> \o NumberChars(Num(k)) \o <<" ", "v", "1">>)

\* values with too few tokens, with the word normal elsewhere, without
\* numbers, and the value of a header that carries binaryValue only
OddValues ==
    { Undefined,
      Str(<<>>),
      Str(normal),
      Str(<<"a", "b", " ", "n", "o", "r", "m", "a", "l">>),
      Str(<<"a", "b", " ", "5", " ", "n", "o", "r", "m", "a", "l">>),
      Str(<<"n", "o", "r", "m", "a", "l", " ", "5", " ", "a", " ", "v", "2">>),
      Str(<<"a", "b", "n", "o", "r", "m", "a", "l", " ", "3", " ", "a", " ", "v", "2", " ", "x">>),
      Str(<<"a", "b">>),
      Str(<<"a", "b", " ", "u", "a", " ", "3", " ", "u", "a", " ", "v", "1">>) }

RailgunValues ==
    {NormalValue(k) : k \in FlagValues} \cup {CompressedValue(k) : k \in {0, 5, 48, 127}}
        \cup OddValues

\* header lists that repeat a name in several spellings
HeaderPool ==
    { [name |-> <<"S", "e", "r", "v", "e", "r">>, value |-> Str(<<"a">>)],
      [name |-> <<"S", "E", "R", "V", "E", "R">>, value |-> Str(<<"b">>)],
      [name |-> <<"S", "E", "R", "V", "E", "R">>, value |-> Str(<<"a">>)],
      [name |-> <<"c", "f", "-", "r", "a", "y">>, value |-> Str(<<"b">>)] }

HeaderLists == UNION {[1..n -> HeaderPool] : n \in 0..MaxHeaders}

\* the pages the decoder specification loads
DecodePages ==
    { [url |-> "http://rg/", ip |-> <<"1", ".", "2", ".", "3", ".", "4">>, fromCache |-> FALSE,
       responseHeaders |-> <<[name |-> <<"C", "f", "-", "R", "a", "i", "l", "g", "u", "n">>, value |-> v]>>] :
        v \in RailgunValues }
    \cup
    { [url |-> "http://hd/", ip |-> <<"1", ".", "2", ".", "3", ".", "4">>, fromCache |-> FALSE,
       responseHeaders |-> hs] : hs \in HeaderLists }

DecodeDetails == {Details(1, p) : p \in DecodePages}

\* ---------------------------------------------- inputs of the icon specification
\* the Server header of a page: none, another server, the exact value, a longer one
ServerHeaders ==
    { <<>>,
      <<[name |-> <<"S", "e", "r", "v", "e", "r">>, value |-> Str(<<"n", "g", "i", "n", "x">>)]>>,
      <<[name |-> <<"S", "e", "r", "v", "e", "r">>, value |-> Str(cloudflare_nginx)]>>,
      <<[name |-> <<"S", "e", "r", "v", "e", "r">>, value |-> Str(cloudflare_nginx \o <<"/", "1">>)]>> }

\* the CF-RAILGUN header of a page: none or one
RailgunHeaders ==
    { <<>>, <<[name |-> <<"C", "f", "-", "R", "a", "i", "l", "g", "u", "n">>, value |-> CompressedValue(5)]>> }

\* the pages the icon specification loads
IconPages ==
    { [url |-> "http://icon/", ip |-> ip, fromCache |-> FALSE, responseHeaders |-> s \o r] :
        ip \in {<<"1", ".", "2", ".", "3", ".", "4">>, <<":", ":", "1">>}, s \in ServerHeaders, r \in RailgunHeaders }

IconDetails == {Details(1, p) : p \in IconPages}

\* ------------------------------------------------------------ Request methods
\* the table railgunFlags, in the order its keys are enumerated
railgunFlags ==
    << [position |-> 1, message |-> "map.file used to change IP"],
       [position |-> 2, message |-> "map.file default IP used"],
       [position |-> 4, message |-> "Host name change"],
       [position |-> 8, message |-> "Existing connection reused"],
       [position |-> 16, message |-> "Railgun sender sent dictionary"],
       [position |-> 32, message |-> "Dictionary found in memcache"],
       [position |-> 64, message |-> "Restarted broken origin connection"] >>

\* the loop over railgunFlags: the messages of the flags set in flagsBitset
RECURSIVE flagMessages(_, _)
flagMessages(flagsBitset, k) ==
    IF k > Len(railgunFlags) THEN <<>>
    ELSE (IF BitSet(flagsBitset, railgunFlags[k].position)
          THEN <<railgunFlags[k].message>> ELSE <<>>)
         \o flagMessages(flagsBitset, k + 1)

\* the version of the normal form read from parts[4], as in the compressed form
processRailgunHeader_versionAtFour(this) ==
    LET railgunHeader == this.headers[CF_RAILGUN]
        railgunNormal == Contains(railgunHeader.s, normal)
        parts == split(railgunHeader.s)
        flagsBitset == IF railgunNormal THEN parseInt(At(parts, 1)) ELSE parseInt(At(parts, 3))
        base == Put(Put(EmptyObject, "normal", Bool(railgunNormal)), "id", At(parts, 0))
        byFormat ==
            IF railgunNormal
            THEN Put(base, "version", At(parts, 4))
            ELSE Put(Put(Put(base,
                     "compression", Str(NumberChars(Minus100(At(parts, 1))) \o <<"%">>)),
                     "time", Str(ToStringChars(At(parts, 2)) \o <<"s", "e", "c">>)),
                     "version", At(parts, 4))
        decoded == Put(Put(byFormat, "flags", flagsBitset),
                       "messages", Arr(flagMessages(flagsBitset, 1)))
    IN  IF railgunHeader.t # "string"
        THEN [this EXCEPT !.railgunMetaData = [set |-> TRUE, obj |-> EmptyObject]]
        ELSE [this EXCEPT !.railgunMetaData = [set |-> TRUE, obj |-> decoded]]

processRailgunHeader(this) ==
    LET railgunHeader == this.headers[CF_RAILGUN]
        railgunNormal == Contains(railgunHeader.s, normal)
        parts == split(railgunHeader.s)
        flagsBitset == IF railgunNormal THEN parseInt(At(parts, 1)) ELSE parseInt(At(parts, 3))
        base == Put(Put(EmptyObject, "normal", Bool(railgunNormal)), "id", At(parts, 0))
        byFormat ==
            IF railgunNormal
            THEN Put(base, "version", At(parts, 3))
            ELSE Put(Put(Put(base,
                     "compression", Str(NumberChars(Minus100(At(parts, 1))) \o <<"%">>)),
                     "time", Str(ToStringChars(At(parts, 2)) \o <<"s", "e", "c">>)),
                     "version", At(parts, 4))
        decoded == Put(Put(byFormat, "flags", flagsBitset),
                       "messages", Arr(flagMessages(flagsBitset, 1)))
    IN  IF railgunHeader.t # "string"
        THEN [this EXCEPT !.railgunMetaData = [set |-> TRUE, obj |-> EmptyObject]]
        ELSE [this EXCEPT !.railgunMetaData = [set |-> TRUE, obj |-> decoded]]

\* the forEach over headersRaw, from element k on
RECURSIVE headersFrom(_, _, _)
headersFrom(headersRaw, headers, k) ==
    IF k > Len(headersRaw) THEN headers
    ELSE headersFrom(headersRaw,
                     Put(headers, toUpperCase(headersRaw[k].name), headersRaw[k].value),
                     k + 1)

\* the headers walked from the last to the first, so that the first value of a
\* name is the one kept
preProcessHeaders_firstWins(this) ==
    LET reversed == [i \in 1..Len(this.headersRaw) |->
                        this.headersRaw[Len(this.headersRaw) + 1 - i]]
        filled == [this EXCEPT !.headers = headersFrom(reversed, this.headers, 1)]
    IN  IF CF_RAILGUN \in DOMAIN filled.headers THEN processRailgunHeader(filled) ELSE filled

preProcessHeaders(this) ==
    LET filled == [this EXCEPT !.headers = headersFrom(this.headersRaw, this.headers, 1)]
    IN  IF CF_RAILGUN \in DOMAIN filled.headers THEN processRailgunHeader(filled) ELSE filled

\* new Request(details)
Request(details) ==
    preProcessHeaders(
        [details |-> details,
         headersRaw |-> details.responseHeaders,
         headers |-> EmptyObject,
         hasSPDYStatus |-> FALSE,
         railgunMetaData |-> [set |-> FALSE, obj |-> EmptyObject],
         SPDY |-> Undefined])

servedByCloudFlare(this) ==
    SERVER \in DOMAIN this.headers /\ this.headers[SERVER] = Str(cloudflare_nginx)

servedByRailgun(this) == CF_RAILGUN \in DOMAIN this.headers

servedOverSPDY(this) == this.SPDY

getTabID(this) == this.details.tabId

getServerIP(this) == this.details.ip

isv6IP(this) == Contains(getServerIP(this), <<":">>)

\* Array.prototype.join('-')
RECURSIVE join(_)
join(tokens) ==
    IF tokens = <<>> THEN ""
    ELSE IF Len(tokens) = 1 THEN tokens[1]
    ELSE tokens[1] \o "-" \o join(Tail(tokens))

\* the ipv6 token pushed before the spdy token
getPageActionPath_ipv6First(this) ==
    LET iconPathParts ==
            (IF servedByCloudFlare(this) THEN <<"on">> ELSE <<"off">>)
            \o (IF isv6IP(this) THEN <<"ipv6">> ELSE <<>>)
            \o (IF Truthy(servedOverSPDY(this)) THEN <<"spdy">> ELSE <<>>)
            \o (IF servedByRailgun(this) THEN <<"rg">> ELSE <<>>)
    IN  "images/claire-3-" \o join(iconPathParts) \o ".png"

getPageActionPath(this) ==
    LET iconPathParts ==
            (IF servedByCloudFlare(this) THEN <<"on">> ELSE <<"off">>)
            \o (IF Truthy(servedOverSPDY(this)) THEN <<"spdy">> ELSE <<>>)
            \o (IF isv6IP(this) THEN <<"ipv6">> ELSE <<>>)
            \o (IF servedByRailgun(this) THEN <<"rg">> ELSE <<>>)
    IN  "images/claire-3-" \o join(iconPathParts) \o ".png"

setSPDYStatus(this, status) == [this EXCEPT !.hasSPDYStatus = TRUE, !.SPDY = status]

\* logToConsole with the debug flag set: the read of railgunMetaData.messages
\* raises a TypeError when the decoder left the object empty
logToConsoleRaises(this, debug_logging) ==
    /\ debug_logging = "yes"
    /\ servedByRailgun(this)
    /\ "messages" \notin DOMAIN this.railgunMetaData.obj

\* ------------------------------------------------------------- host and state
\* a call of chrome.tabs.sendMessage, chrome.extension.lastError or
\* chrome.pageAction.*; the host rejects (raises in) the calls named in `rejected`
Call(api, tabId, path, rejected) ==
    [api |-> api, tabId |-> tabId, path |-> path, ok |-> api \notin rejected]

\* a message or reply object {spdy: b}, or no object at all
NoMessage == [set |-> FALSE, obj |-> EmptyObject]
StatusMessage(b) == [set |-> TRUE, obj |-> Put(EmptyObject, "spdy", Bool(b))]
Messages == {NoMessage} \cup {StatusMessage(b) : b \in BOOLEAN}

\* the sender of a message posted by the content script of a tab
Sender(tabId) == [tab |-> [id |-> tabId]]

\* delete obj[key]
Remove(obj, key) == [k \in DOMAIN obj \ {key} |-> obj[k]]

\* the callbacks the host holds and has not invoked yet, counted from tab k on
RECURSIVE InFlight(_, _)
InFlight(pending, k) == IF k > MaxTab THEN 0 ELSE pending[k] + InFlight(pending, k + 1)
AllInFlight == InFlight(pendingQueries, 1) + InFlight(pendingIcons, 1)

\* the run of one listener, as the host observes it: the event, the host calls
\* made in order, the responses sent, and whether an error left the listener
Run(handler, hit, calls, responses, raised) ==
    [handler |-> handler, hit |-> hit, calls |-> calls,
     responses |-> responses, raised |-> raised]

Init ==
    /\ requests = EmptyObject
    /\ pendingQueries = [t \in Tabs |-> 0]
    /\ pendingIcons = [t \in Tabs |-> 0]
    /\ last = Run("none", FALSE, <<>>, <<>>, FALSE)

\* setPageActionIconAndPopup: the setIcon call, not guarded by any try
setPageActionIconAndPopup(this, rejected) ==
    LET iconPath == getPageActionPath(this)
        tabID == this.details.tabId
        setIcon == Call("pageAction.setIcon", this.details.tabId, iconPath, rejected)
    IN  [calls |-> <<setIcon>>,
         raised |-> ~setIcon.ok,
         queryCallbacks |-> {},
         iconCallbacks |-> IF setIcon.ok THEN {tabID} ELSE {}]

\* the query sent whether or not the record has its status
querySPDYStatusAndSetIcon_alwaysQueries(this, rejected) ==
    LET tabID == this.details.tabId
        sendMessage == Call("tabs.sendMessage", this.details.tabId, "", rejected)
        lastError == Call("extension.lastError", 0, "", rejected)
    IN  IF sendMessage.ok
        THEN [calls |-> <<sendMessage>>, raised |-> FALSE,
              queryCallbacks |-> {tabID}, iconCallbacks |-> {}]
        ELSE [calls |-> <<sendMessage, lastError>>, raised |-> ~lastError.ok,
              queryCallbacks |-> {}, iconCallbacks |-> {}]

\* querySPDYStatusAndSetIcon: sendMessage inside try; the catch block logs and
\* calls chrome.extension.lastError(), which is outside any try itself
querySPDYStatusAndSetIcon(this, rejected) ==
    LET tabID == this.details.tabId
        sendMessage == Call("tabs.sendMessage", this.details.tabId, "", rejected)
        lastError == Call("extension.lastError", 0, "", rejected)
    IN  IF this.hasSPDYStatus
        THEN setPageActionIconAndPopup(this, rejected)
        ELSE IF sendMessage.ok
             THEN [calls |-> <<sendMessage>>, raised |-> FALSE,
                   queryCallbacks |-> {tabID}, iconCallbacks |-> {}]
             ELSE [calls |-> <<sendMessage, lastError>>, raised |-> ~lastError.ok,
                   queryCallbacks |-> {}, iconCallbacks |-> {}]

\* the host keeps the callbacks passed to it, each with its captured tabID
Register(pending, tabIDs) == [t \in Tabs |-> pending[t] + (IF t \in tabIDs THEN 1 ELSE 0)]

\* new Request(details), for each details object an event may carry
NewRequest ==
    [d \in CompletedDetails \cup DecodeDetails \cup IconDetails |-> Request(d)]

\* ----------------------------------------------------------------- listeners
\* a registry rebuilt around the new entry instead of updated in place
processCompletedRequest_resetsRegistry(details, debug_logging) ==
    LET request == NewRequest[details]
    IN  /\ details.tabId \in DOMAIN requests \/ Cardinality(DOMAIN requests) < MaxTracked
        /\ requests' = Put(EmptyObject, details.tabId, request)
        /\ last' = Run("RequestCompleted",
                       details.tabId \in DOMAIN requests, <<>>, <<>>,
                       logToConsoleRaises(request, debug_logging))
        /\ UNCHANGED <<pendingQueries, pendingIcons>>

\* chrome.webRequest.onCompleted
processCompletedRequest(details, debug_logging) ==
    LET request == NewRequest[details]
    IN  /\ details.tabId \in DOMAIN requests \/ Cardinality(DOMAIN requests) < MaxTracked
        /\ requests' = Put(requests, details.tabId, request)
        /\ last' = Run("RequestCompleted",
                       details.tabId \in DOMAIN requests, <<>>, <<>>,
                       logToConsoleRaises(request, debug_logging))
        /\ UNCHANGED <<pendingQueries, pendingIcons>>

\* the record copied to the added tab without the delete of the removed one
onReplaced_keepsRemoved(addedTabId, removedTabId) ==
    /\ requests' = IF removedTabId \in DOMAIN requests
                   THEN Put(requests, addedTabId, requests[removedTabId])
                   ELSE requests
    /\ last' = Run("TabReplaced",
                   removedTabId \in DOMAIN requests, <<>>, <<>>, FALSE)
    /\ UNCHANGED <<pendingQueries, pendingIcons>>

\* chrome.tabs.onReplaced
onReplaced(addedTabId, removedTabId) ==
    /\ requests' = IF removedTabId \in DOMAIN requests
                   THEN Remove(Put(requests, addedTabId, requests[removedTabId]), removedTabId)
                   ELSE requests
    /\ last' = Run("TabReplaced",
                   removedTabId \in DOMAIN requests, <<>>, <<>>, FALSE)
    /\ UNCHANGED <<pendingQueries, pendingIcons>>

\* chrome.webNavigation.onDOMContentLoaded
onDOMContentLoaded(details, rejected) ==
    LET tracked == details.frameId <= 0 /\ details.tabId \in DOMAIN requests
        effect == IF tracked
                  THEN querySPDYStatusAndSetIcon(requests[details.tabId], rejected)
                  ELSE [calls |-> <<>>, raised |-> FALSE,
                        queryCallbacks |-> {}, iconCallbacks |-> {}]
    IN  /\ effect.queryCallbacks \cup effect.iconCallbacks # {} => AllInFlight < MaxPending
        /\ pendingQueries' = Register(pendingQueries, effect.queryCallbacks)
        /\ pendingIcons' = Register(pendingIcons, effect.iconCallbacks)
        /\ last' = Run("TopFrameContentLoaded",
                       tracked, effect.calls, <<>>, effect.raised)
        /\ UNCHANGED requests

\* a Request has SPDY but no property named spdy, so reading it gives undefined
spdy(request) == Undefined

\* sendResponse moved inside the `if (request)` branch
onMessage_respondsIfFound(message, sender) ==
    LET found == sender.tab.id \in DOMAIN requests
    IN  /\ requests' = IF found
                       THEN [requests EXCEPT ![sender.tab.id] =
                                setSPDYStatus(requests[sender.tab.id],
                                              spdy(requests[sender.tab.id]))]
                       ELSE requests
        /\ last' = Run("InboundStatusMessage",
                       found, <<>>, IF found THEN <<EmptyObject>> ELSE <<>>, FALSE)
        /\ UNCHANGED <<pendingQueries, pendingIcons>>

\* chrome.runtime.onMessage: the local `var request` takes the place of the
\* message parameter of the same name
onMessage(message, sender) ==
    LET found == sender.tab.id \in DOMAIN requests
    IN  /\ requests' = IF found
                       THEN [requests EXCEPT ![sender.tab.id] =
                                setSPDYStatus(requests[sender.tab.id],
                                              spdy(requests[sender.tab.id]))]
                       ELSE requests
        /\ last' = Run("InboundStatusMessage",
                       found, <<>>, <<EmptyObject>>, FALSE)
        /\ UNCHANGED <<pendingQueries, pendingIcons>>

\* the whole registry cleared instead of the one entry
onRemoved_clearsAll(tabId) ==
    /\ requests' = EmptyObject
    /\ last' = Run("TabRemoved", tabId \in DOMAIN requests,
                   <<>>, <<>>, FALSE)
    /\ UNCHANGED <<pendingQueries, pendingIcons>>

\* chrome.tabs.onRemoved
onRemoved(tabId) ==
    /\ requests' = Remove(requests, tabId)
    /\ last' = Run("TabRemoved", tabId \in DOMAIN requests,
                   <<>>, <<>>, FALSE)
    /\ UNCHANGED <<pendingQueries, pendingIcons>>

\* the icon set from the record as it was before the reply was stored in it
cs_message_callback_iconBeforeStore(tabID, cs_msg_response, rejected) ==
    LET answered == cs_msg_response.set
        found == tabID \in DOMAIN requests
        request == [requests[tabID] EXCEPT !.SPDY = Get(cs_msg_response.obj, "spdy")]
        effect == IF answered /\ found
                  THEN setPageActionIconAndPopup(requests[tabID], rejected)
                  ELSE [calls |-> <<>>, raised |-> answered,
                        queryCallbacks |-> {}, iconCallbacks |-> {}]
    IN  /\ pendingQueries[tabID] > 0
        /\ pendingQueries' = [pendingQueries EXCEPT ![tabID] = @ - 1]
        /\ pendingIcons' = Register(pendingIcons, effect.iconCallbacks)
        /\ requests' = IF answered /\ found
                       THEN [requests EXCEPT ![tabID] = request]
                       ELSE requests
        /\ last' = Run("QueryReply", found,
                       effect.calls, <<>>, effect.raised)

\* the callback without its early return on an absent response
cs_message_callback_noResponseTest(tabID, cs_msg_response, rejected) ==
    LET answered == TRUE
        found == tabID \in DOMAIN requests
        request == [requests[tabID] EXCEPT !.SPDY = Get(cs_msg_response.obj, "spdy")]
        effect == IF answered /\ found
                  THEN setPageActionIconAndPopup(request, rejected)
                  ELSE [calls |-> <<>>, raised |-> answered,
                        queryCallbacks |-> {}, iconCallbacks |-> {}]
    IN  /\ pendingQueries[tabID] > 0
        /\ pendingQueries' = [pendingQueries EXCEPT ![tabID] = @ - 1]
        /\ pendingIcons' = Register(pendingIcons, effect.iconCallbacks)
        /\ requests' = IF answered /\ found
                       THEN [requests EXCEPT ![tabID] = request]
                       ELSE requests
        /\ last' = Run("QueryReply", found,
                       effect.calls, <<>>, effect.raised)

\* cs_message_callback, for the query sent with the captured tabID
cs_message_callback(tabID, cs_msg_response, rejected) ==
    LET answered == cs_msg_response.set
        found == tabID \in DOMAIN requests
        request == [requests[tabID] EXCEPT !.SPDY = Get(cs_msg_response.obj, "spdy")]
        effect == IF answered /\ found
                  THEN setPageActionIconAndPopup(request, rejected)
                  ELSE [calls |-> <<>>, raised |-> answered,
                        queryCallbacks |-> {}, iconCallbacks |-> {}]
    IN  /\ pendingQueries[tabID] > 0
        /\ pendingQueries' = [pendingQueries EXCEPT ![tabID] = @ - 1]
        /\ pendingIcons' = Register(pendingIcons, effect.iconCallbacks)
        /\ requests' = IF answered /\ found
                       THEN [requests EXCEPT ![tabID] = request]
                       ELSE requests
        /\ last' = Run("QueryReply", found,
                       effect.calls, <<>>, effect.raised)

\* the page context never answers, the callback is dropped: no listener runs
replyNeverFires(tabID) ==
    /\ pendingQueries[tabID] > 0
    /\ pendingQueries' = [pendingQueries EXCEPT ![tabID] = @ - 1]
    /\ last' = Run("none", FALSE, <<>>, <<>>, FALSE)
    /\ UNCHANGED <<requests, pendingIcons>>

\* the callback passed to chrome.pageAction.setIcon
setIconCallback(tabID, rejected) ==
    LET setPopup == Call("pageAction.setPopup", tabID, "page_action_popup.html", rejected)
        show == Call("pageAction.show", tabID, "", rejected)
    IN  /\ pendingIcons[tabID] > 0
        /\ pendingIcons' = [pendingIcons EXCEPT ![tabID] = @ - 1]
        /\ last' = Run("IconSet", FALSE,
                       IF setPopup.ok THEN <<setPopup, show>> ELSE <<setPopup>>,
                       <<>>, FALSE)
        /\ UNCHANGED <<requests, pendingQueries>>

RequestCompleted ==
    \E details \in CompletedDetails, debug_logging \in {"yes", "null"} :
        processCompletedRequest(details, debug_logging)

TabReplaced == \E addedTabId \in Tabs, removedTabId \in Tabs : onReplaced(addedTabId, removedTabId)

TopFrameContentLoaded ==
    \E t \in Tabs, f \in {0, 1}, rejected \in {{}, {"tabs.sendMessage"}, {"tabs.sendMessage", "extension.lastError"}, {"pageAction.setIcon"}} :
        onDOMContentLoaded([tabId |-> t, frameId |-> f], rejected)

InboundStatusMessage ==
    \E t \in Tabs, b \in BOOLEAN : onMessage(StatusMessage(b), Sender(t))

TabRemoved == \E t \in Tabs : onRemoved(t)

QueryReply ==
    \E t \in Tabs, m \in Messages, rejected \in SUBSET {"pageAction.setIcon"} :
        cs_message_callback(t, m, rejected)

ReplyNeverFires == \E t \in Tabs : replyNeverFires(t)

IconSet ==
    \E t \in Tabs, rejected \in SUBSET {"pageAction.setPopup", "pageAction.show"} :
        setIconCallback(t, rejected)

Next ==
    \/ RequestCompleted
    \/ TabReplaced
    \/ TopFrameContentLoaded
    \/ InboundStatusMessage
    \/ TabRemoved
    \/ QueryReply
    \/ ReplyNeverFires
    \/ IconSet

Spec == Init /\ [][Next]_vars

\* ------------------------------------------------------ decoder specification
\* the onCompleted events of one tab, over every generated page: each builds a
\* Request, which runs preProcessHeaders and processRailgunHeader
DecodeCompleted ==
    \E details \in DecodeDetails, debug_logging \in {"yes", "null"} :
        processCompletedRequest(details, debug_logging)

DecodeNext == DecodeCompleted

DecodeSpec == Init /\ [][DecodeNext]_vars

\* --------------------------------------------------------- icon specification
\* the onCompleted events of one tab, over the pages that differ in what the
\* icon shows
IconCompleted ==
    \E details \in IconDetails, debug_logging \in {"yes", "null"} :
        processCompletedRequest(details, debug_logging)

\* the listeners and callbacks of one tab that loads, queries and shows pages
IconNext ==
    \/ IconCompleted
    \/ TopFrameContentLoaded
    \/ InboundStatusMessage
    \/ TabRemoved
    \/ QueryReply
    \/ ReplyNeverFires
    \/ IconSet

IconSpec == Init /\ [][IconNext]_vars

\* the host invokes the callback it was given once setIcon has completed
IconFairSpec == IconSpec /\ WF_vars(IconSet)

\* -------------------------------------------------------------------- claims
\* the entries of the tab ids outside `touched` are the same before and after
OthersUnchanged(touched) ==
    \A k \in Tabs \ touched :
        /\ (k \in DOMAIN requests) <=> (k \in DOMAIN requests')
        /\ k \in DOMAIN requests => requests'[k] = requests[k]

\* the setIcon calls of a handler run that name the given tab
SetIconCalls(run, tabId) ==
    {i \in DOMAIN run.calls :
        run.calls[i].api = "pageAction.setIcon" /\ run.calls[i].tabId = tabId}

\* C1: for distinct tab ids added and removed where removed has an entry, after
\* onTabReplaced(added, removed) there is no entry for removed and the entry
\* for added is the record that was registered under removed.
C1_ReplaceMovesRecord ==
    [][last'.handler = "TabReplaced" =>
          \A added \in Tabs, removed \in Tabs :
             (added # removed /\ removed \in DOMAIN requests /\ onReplaced(added, removed))
                 => /\ removed \notin DOMAIN requests'
                    /\ added \in DOMAIN requests'
                    /\ requests'[added] = requests[removed]]_vars

\* a tab-replace found its record and the record now sits under another key
C1_Witness ==
    /\ last.handler = "TabReplaced"
    /\ last.hit
    /\ \E k \in DOMAIN requests : getTabID(requests[k]) # k

\* C2: in every reachable state, the tab id stored in the record registered
\* under k (the one its query and icon calls use) equals k.
C2_RecordTabIdIsKey ==
    \A k \in DOMAIN requests : getTabID(requests[k]) = k

\* C3: an inbound status message from a tab with an entry makes that record
\* KNOWN with the status value carried in the message payload.
C3_MessageStoresPayload ==
    [][last'.handler = "InboundStatusMessage" =>
          \A t \in Tabs, b \in BOOLEAN :
             (t \in DOMAIN requests /\ onMessage(StatusMessage(b), Sender(t)))
                 => /\ requests'[t].hasSPDYStatus
                    /\ requests'[t].SPDY = Bool(b)]_vars

\* C4: a reply that delivers a status for an UNKNOWN record makes the record
\* KNOWN and stores the boolean, so that a later TopFrameContentLoaded for the
\* record sends no further query.
C4_ReplyMakesKnown ==
    [][last'.handler = "QueryReply" =>
          \A t \in Tabs, b \in BOOLEAN :
             (/\ t \in DOMAIN requests
              /\ ~requests[t].hasSPDYStatus
              /\ cs_message_callback(t, StatusMessage(b), {}))
                 => /\ requests'[t].hasSPDYStatus
                    /\ requests'[t].SPDY = Bool(b)
                    /\ querySPDYStatusAndSetIcon(requests'[t], {}).queryCallbacks = {}]_vars

\* C5: every UNKNOWN-to-KNOWN transition of a record, by the reply callback or
\* by an inbound status message, comes with exactly one setIcon call for it.
C5_TransitionSetsIconOnce ==
    [][\A t \in Tabs :
          (/\ last'.handler \in {"QueryReply", "InboundStatusMessage"}
           /\ t \in DOMAIN requests
           /\ t \in DOMAIN requests'
           /\ ~requests[t].hasSPDYStatus
           /\ requests'[t].hasSPDYStatus)
              => Cardinality(SetIconCalls(last', getTabID(requests'[t]))) = 1]_vars

\* C6: a handler whose tab id has no entry (tab-replace, tab-remove, content
\* loaded, inbound message, reply callback) raises no error and leaves the
\* registry and every record as they were.
C6_LookupMissHarmless ==
    [][(/\ last'.handler \in {"TabReplaced", "TabRemoved", "TopFrameContentLoaded",
                               "InboundStatusMessage", "QueryReply"}
        /\ ~last'.hit)
           => /\ ~last'.raised
              /\ requests' = requests]_vars

\* C7: onRequestCompleted for tab t changes only the entry of t, and
\* onTabReplaced(added, removed) only the entries of added and removed; the
\* entry and record of every other tab id stay as they were.
C7_OtherTabsUntouched ==
    [][/\ last'.handler = "RequestCompleted" =>
             \A details \in CompletedDetails, debug_logging \in {"yes", "null"} :
                processCompletedRequest(details, debug_logging)
                    => OthersUnchanged({details.tabId})
       /\ last'.handler = "TabReplaced" =>
             \A added \in Tabs, removed \in Tabs :
                onReplaced(added, removed) => OthersUnchanged({added, removed})]_vars

\* a request completed while another tab keeps its entry
C7_Witness ==
    /\ last.handler = "RequestCompleted"
    /\ Cardinality(DOMAIN requests) = 2

\* C8: after onTabRemoved(t) there is no entry for t; if there was none the
\* registry is unchanged; the entries of all other tab ids are unchanged.
C8_RemoveClearsOnlyItsTab ==
    [][last'.handler = "TabRemoved" =>
          \A t \in Tabs :
             onRemoved(t)
                 => /\ t \notin DOMAIN requests'
                    /\ t \notin DOMAIN requests => requests' = requests
                    /\ OthersUnchanged({t})]_vars

\* a tab with an entry was removed while another tab keeps its entry
C8_Witness ==
    /\ last.handler = "TabRemoved"
    /\ last.hit
    /\ DOMAIN requests # {}

\* C9: every inbound status message is answered exactly once, with an empty
\* object, in the run of its handler, whether or not the sender has an entry.
C9_MessageAcknowledgedOnce ==
    last.handler = "InboundStatusMessage"
        => /\ last.responses = <<EmptyObject>>
           /\ ~last.raised

\* a message from a tab without an entry was handled
C9_Witness ==
    /\ last.handler = "InboundStatusMessage"
    /\ ~last.hit

\* C10: when the host rejects sendMessage, setIcon, setPopup or show, no error
\* leaves the handler and the steps after the rejected call still run.
C10_HostFailureCaught ==
    \A i \in DOMAIN last.calls :
        (/\ ~last.calls[i].ok
         /\ \A j \in DOMAIN last.calls :
               last.calls[j].api = "extension.lastError" => last.calls[j].ok)
            => /\ ~last.raised
               /\ last.calls[i].api = "pageAction.setPopup"
                     => \E j \in DOMAIN last.calls :
                           j > i /\ last.calls[j].api = "pageAction.show"

\* the place of a message in the table railgunFlags
FlagIndex(message) ==
    CHOOSE i \in DOMAIN railgunFlags : railgunFlags[i].message = message

\* C11: for every integer flags field the decoded messages hold the message of
\* a flag exactly when that flag's bit (0x01 .. 0x40) is set in the field, in
\* ascending bit order and without repeats; 0 gives none, 0x05 the first and
\* the third, 0x7F all seven, and bits above 0x40 add nothing.
C11_FlagExpansion ==
    \A t \in DOMAIN requests :
        LET railgunMetaData == requests[t].railgunMetaData.obj
            flagsBitset == railgunMetaData["flags"]
            activeFlagMessages == railgunMetaData["messages"].s
        IN  ("flags" \in DOMAIN railgunMetaData /\ flagsBitset.t = "number") =>
                /\ \A i \in 1..7 :
                      (\E j \in DOMAIN activeFlagMessages :
                          activeFlagMessages[j] = railgunFlags[i].message)
                      <=> (flagsBitset.n \div (2 ^ (i - 1))) % 2 = 1
                /\ \A j \in DOMAIN activeFlagMessages :
                      \E i \in 1..7 : activeFlagMessages[j] = railgunFlags[i].message
                /\ \A j, k \in DOMAIN activeFlagMessages :
                      j < k => FlagIndex(activeFlagMessages[j])
                                  < FlagIndex(activeFlagMessages[k])
                /\ flagsBitset.n = 0 => activeFlagMessages = <<>>
                /\ flagsBitset.n = 5 =>
                      activeFlagMessages = <<"map.file used to change IP", "Host name change">>
                /\ flagsBitset.n = 127 =>
                      activeFlagMessages = [i \in 1..7 |-> railgunFlags[i].message]
                /\ flagsBitset.n = 128 => activeFlagMessages = <<>>

\* a flags field with a bit above 0x40 and the bits 0x01 and 0x04 was decoded
C11_Witness ==
    \E t \in DOMAIN requests :
        /\ "flags" \in DOMAIN requests[t].railgunMetaData.obj
        /\ requests[t].railgunMetaData.obj["flags"] = Num(133)
        /\ requests[t].railgunMetaData.obj["messages"]
              = Arr(<<"map.file used to change IP", "Host name change">>)

\* the records decoded from a CF-RAILGUN string that contains the word normal
NormalRecords ==
    { t \in DOMAIN requests :
        /\ CF_RAILGUN \in DOMAIN requests[t].headers
        /\ requests[t].headers[CF_RAILGUN].t = "string"
        /\ Contains(requests[t].headers[CF_RAILGUN].s, normal) }

\* the spaces of a header value: one less than its tokens
Spaces(chars) == Cardinality({i \in DOMAIN chars : chars[i] = " "})

\* C12, as claimed: every CF-RAILGUN string that contains "normal", wherever and
\* among however many tokens, decodes to normal = true with id, version, flags
\* and messages all defined, and with no compression and no time.
C12_NormalPopulatesDefined ==
    \A t \in NormalRecords :
        LET railgunMetaData == requests[t].railgunMetaData.obj
        IN  /\ DOMAIN railgunMetaData = {"normal", "id", "version", "flags", "messages"}
            /\ railgunMetaData["normal"] = Bool(TRUE)
            /\ railgunMetaData["id"].t # "undefined"
            /\ railgunMetaData["version"].t # "undefined"
            /\ railgunMetaData["flags"].t # "undefined"
            /\ railgunMetaData["messages"].t = "array"

\* C12, amended: such a string decodes to normal = true with id (its first
\* token), flags (a number, or NaN when the second token has no leading
\* integer) and messages, with no compression and no time; version is the
\* fourth token, defined only when the string has at least four tokens.
C12_NormalPopulates ==
    \A t \in NormalRecords :
        LET railgunMetaData == requests[t].railgunMetaData.obj
            railgunHeader == requests[t].headers[CF_RAILGUN].s
        IN  /\ DOMAIN railgunMetaData = {"normal", "id", "version", "flags", "messages"}
            /\ railgunMetaData["normal"] = Bool(TRUE)
            /\ railgunMetaData["id"].t = "string"
            /\ \A i \in DOMAIN railgunMetaData["id"].s :
                  railgunMetaData["id"].s[i] = railgunHeader[i] /\ railgunHeader[i] # " "
            /\ railgunMetaData["version"].t # "undefined" <=> Spaces(railgunHeader) >= 3
            /\ railgunMetaData["flags"].t \in {"number", "NaN"}
            /\ railgunMetaData["messages"].t = "array"

\* the header value "normal", a single token, was decoded
C12_Witness ==
    \E t \in NormalRecords :
        /\ requests[t].headers[CF_RAILGUN] = Str(normal)
        /\ requests[t].railgunMetaData.obj["version"] = Undefined

LowerCaseLetters ==
    {"a", "b", "c", "d", "e", "f", "g", "h", "i", "j", "k", "l", "m",
     "n", "o", "p", "q", "r", "s", "t", "u", "v", "w", "x", "y", "z"}

\* C14: the header map of a record has one key per distinct uppercased name of
\* the raw header list, and the value of a key is that of the last list element
\* whose uppercased name is the key: the list Server: a, SERVER: b gives the
\* single entry SERVER = b.
C14_HeaderMapLastWins ==
    \A t \in DOMAIN requests :
        LET headersRaw == requests[t].headersRaw
            headers == requests[t].headers
        IN  /\ DOMAIN headers = {toUpperCase(headersRaw[i].name) : i \in DOMAIN headersRaw}
            /\ \A key \in DOMAIN headers :
                  /\ \A c \in DOMAIN key : key[c] \notin LowerCaseLetters
                  /\ \E i \in DOMAIN headersRaw :
                        /\ toUpperCase(headersRaw[i].name) = key
                        /\ \A j \in DOMAIN headersRaw :
                              j > i => toUpperCase(headersRaw[j].name) # key
                        /\ headers[key] = headersRaw[i].value
            /\ \A i \in DOMAIN headersRaw :
                  headersRaw[i].name \in {<<"S", "e", "r", "v", "e", "r">>, <<"s", "e", "r", "v", "e", "r">>, SERVER}
                      => SERVER \in DOMAIN headers
            /\ headersRaw = << [name |-> <<"S", "e", "r", "v", "e", "r">>, value |-> Str(<<"a">>)],
                               [name |-> SERVER, value |-> Str(<<"b">>)] >>
                  => headers = Put(EmptyObject, SERVER, Str(<<"b">>))

\* the list Server: a, SERVER: b was read into a map
C14_Witness ==
    \E t \in DOMAIN requests :
        /\ requests[t].headersRaw = << [name |-> <<"S", "e", "r", "v", "e", "r">>, value |-> Str(<<"a">>)],
                                       [name |-> SERVER, value |-> Str(<<"b">>)] >>
        /\ requests[t].headers[SERVER] = Str(<<"b">>)

\* C15: the debug_logging flag never changes what an onCompleted event does:
\* for every details object, a CF-RAILGUN header without a string value
\* included, a step is the run of the handler with the flag set exactly when
\* it is its run with the flag unset, so the registry, the stored record and
\* whether an error leaves the handler are the same either way.
C15_DebugLoggingInert ==
    [][\A details \in DecodeDetails :
          processCompletedRequest(details, "yes")
              <=> processCompletedRequest(details, "null")]_vars

\* the icon file of a page that is or is not on CloudFlare, over SPDY, on an
\* IPv6 address, through Railgun
IconVariant(on, overSPDY, ipv6, rg) ==
    "images/claire-3-"
        \o (IF on THEN "on" ELSE "off")
        \o (IF overSPDY THEN "-spdy" ELSE "")
        \o (IF ipv6 THEN "-ipv6" ELSE "")
        \o (IF rg THEN "-rg" ELSE "")
        \o ".png"

HasHeader(responseHeaders, name) ==
    \E i \in DOMAIN responseHeaders : toUpperCase(responseHeaders[i].name) = name

\* C13: the icon of a record is "on" or "off" (on exactly when the SERVER
\* header equals cloudflare-nginx), then "spdy" when the transport value is
\* active, "ipv6" when the address holds a colon, "rg" when a CF-RAILGUN header
\* is present, joined by dashes in that order; all true gives on-spdy-ipv6-rg,
\* all false gives off, and there are exactly 16 variants.
C13_IconVariant ==
    /\ \A t \in DOMAIN requests :
          LET details == requests[t].details
              on == \E i \in DOMAIN details.responseHeaders :
                        /\ toUpperCase(details.responseHeaders[i].name) = SERVER
                        /\ details.responseHeaders[i].value = Str(cloudflare_nginx)
              overSPDY == requests[t].SPDY = Bool(TRUE)
              ipv6 == \E i \in DOMAIN details.ip : details.ip[i] = ":"
              rg == HasHeader(details.responseHeaders, CF_RAILGUN)
          IN  /\ getPageActionPath(requests[t]) = IconVariant(on, overSPDY, ipv6, rg)
              /\ (on /\ overSPDY /\ ipv6 /\ rg)
                    => getPageActionPath(requests[t]) = "images/claire-3-on-spdy-ipv6-rg.png"
              /\ ~(on \/ overSPDY \/ ipv6 \/ rg)
                    => getPageActionPath(requests[t]) = "images/claire-3-off.png"
    /\ Cardinality({ getPageActionPath([NewRequest[d] EXCEPT !.SPDY = status]) :
                        d \in IconDetails,
                        status \in {Undefined, Bool(FALSE), Bool(TRUE)} }) = 16

\* a record of a CloudFlare page on IPv6 through Railgun got the status true
C13_Witness ==
    \E t \in DOMAIN requests :
        /\ requests[t].SPDY = Bool(TRUE)
        /\ getPageActionPath(requests[t]) = "images/claire-3-on-spdy-ipv6-rg.png"

\* the record of a tab was replaced by a new onCompleted event while a query
\* sent for that tab is still unanswered
ReplacedWhileQueried(tabID) ==
    /\ last.handler = "RequestCompleted"
    /\ last.hit
    /\ pendingQueries[tabID] > 0
    /\ tabID \in DOMAIN requests

\* C16: when the record of a tab is replaced while a query for the tab is in
\* flight and the reply then arrives with a status, the status is stored in
\* the record now registered for the tab, the registry is otherwise unchanged,
\* and the icon set is the one computed from that record.
C16_StaleReplyUpdatesCurrent ==
    [][last'.handler = "QueryReply" =>
          \A tabID \in Tabs, b \in BOOLEAN, rejected \in SUBSET {"pageAction.setIcon"} :
              (ReplacedWhileQueried(tabID)
                  /\ cs_message_callback(tabID, StatusMessage(b), rejected))
              => /\ requests' = [requests EXCEPT ![tabID] =
                                     [requests[tabID] EXCEPT !.SPDY = Bool(b)]]
                 /\ last'.calls =
                        <<Call("pageAction.setIcon", tabID,
                               getPageActionPath(requests'[tabID]), rejected)>>
                 /\ getPageActionPath(requests'[tabID]) =
                        IconVariant(servedByCloudFlare(requests[tabID]), b,
                                    isv6IP(requests[tabID]),
                                    servedByRailgun(requests[tabID]))]_vars

\* a query is unanswered for a tab whose record has just been replaced by that
\* of another page: the reply that arrives next belongs to the old record
C16_Witness ==
    \E tabID \in Tabs :
        /\ ReplacedWhileQueried(tabID)
        /\ servedByCloudFlare(requests[tabID])
        /\ requests[tabID].SPDY = Undefined

\* the calls of one api made in a run
CallsOf(run, api) == {i \in DOMAIN run.calls : run.calls[i].api = api}

\* C17: a top-frame (frameId 0) DOMContentLoaded event for a tab whose record
\* has its status sends no query and sets the icon once, to the variant of
\* the stored transport value; for a record without its status it sends
\* exactly one query and sets no icon.
C17_LoadedQueriesOrSetsIcon ==
    [][last'.handler = "TopFrameContentLoaded" =>
          \A t \in DOMAIN requests,
             rejected \in SUBSET {"tabs.sendMessage", "extension.lastError",
                                  "pageAction.setIcon"} :
              onDOMContentLoaded([tabId |-> t, frameId |-> 0], rejected)
              => IF requests[t].hasSPDYStatus
                 THEN /\ CallsOf(last', "tabs.sendMessage") = {}
                      /\ Cardinality(CallsOf(last', "pageAction.setIcon")) = 1
                      /\ \A i \in CallsOf(last', "pageAction.setIcon") :
                            last'.calls[i].path =
                                IconVariant(servedByCloudFlare(requests[t]),
                                            requests[t].SPDY = Bool(TRUE),
                                            isv6IP(requests[t]),
                                            servedByRailgun(requests[t]))
                      /\ pendingQueries' = pendingQueries
                 ELSE /\ Cardinality(CallsOf(last', "tabs.sendMessage")) = 1
                      /\ CallsOf(last', "pageAction.setIcon") = {}
                      /\ pendingIcons' = pendingIcons]_vars

\* the event ran for a record that has its status and the transport value
\* true, and set the icon
C17_Witness ==
    /\ last.handler = "TopFrameContentLoaded"
    /\ last.hit
    /\ \E t \in DOMAIN requests :
          /\ requests[t].hasSPDYStatus
          /\ requests[t].SPDY = Bool(TRUE)
          /\ CallsOf(last, "pageAction.setIcon") # {}
          /\ \A i \in CallsOf(last, "pageAction.setIcon") :
                last.calls[i].path = getPageActionPath(requests[t])

\* a record without its status and without a transport value
Unqueried(request) == ~request.hasSPDYStatus /\ request.SPDY = Undefined

\* C18: when the page never answers a query (the callback is never invoked, or
\* is invoked without a response) the registry is unchanged, a record without
\* status and transport value stays so, no host call is made and no callback
\* is registered; a query is only ever sent by a DOMContentLoaded event.
C18_NoResponseNoEffect ==
    [][/\ last'.handler \in {"QueryReply", "none"} =>
             \A tabID \in Tabs, rejected \in SUBSET {"pageAction.setIcon"} :
                 (cs_message_callback(tabID, NoMessage, rejected) \/ replyNeverFires(tabID))
                 => /\ requests' = requests
                    /\ \A t \in DOMAIN requests :
                          Unqueried(requests[t]) => Unqueried(requests'[t])
                    /\ last'.calls = <<>>
                    /\ ~last'.raised
                    /\ pendingIcons' = pendingIcons
                    /\ pendingQueries' = [pendingQueries EXCEPT ![tabID] = @ - 1]
       /\ CallsOf(last', "tabs.sendMessage") # {}
             => last'.handler = "TopFrameContentLoaded"]_vars

\* the callback of the only query ran without a response, for a tab whose
\* record has neither status nor transport value
C18_Witness ==
    /\ last.handler = "QueryReply"
    /\ last.hit
    /\ last.calls = <<>>
    /\ ~last.raised
    /\ \E t \in DOMAIN requests : Unqueried(requests[t])
    /\ \A t \in Tabs : pendingQueries[t] = 0

\* C19: every sendMessage and setIcon call made for a record names the tab id
\* under which the record is registered at that time, also after onReplaced
\* has moved the record to the added tab.
C19_CallsTargetRegisteredTab ==
    [][/\ last'.handler = "TopFrameContentLoaded" =>
             \A t \in DOMAIN requests,
                rejected \in SUBSET {"tabs.sendMessage", "extension.lastError",
                                     "pageAction.setIcon"} :
                 onDOMContentLoaded([tabId |-> t, frameId |-> 0], rejected)
                 => \A i \in CallsOf(last', "tabs.sendMessage")
                              \cup CallsOf(last', "pageAction.setIcon") :
                        last'.calls[i].tabId = t
       /\ last'.handler = "QueryReply" =>
             \A tabID \in DOMAIN requests, cs_msg_response \in Messages,
                rejected \in SUBSET {"pageAction.setIcon"} :
                 cs_message_callback(tabID, cs_msg_response, rejected)
                 => \A i \in CallsOf(last', "pageAction.setIcon") :
                        last'.calls[i].tabId = tabID]_vars

\* the reply to the query of tab t arrived with a status, was stored in the
\* record registered for t, and setIcon was called
StatusReplied(t) ==
    /\ last.handler = "QueryReply"
    /\ last.hit
    /\ t \in DOMAIN requests
    /\ requests[t].SPDY.t = "boolean"
    /\ \E i \in CallsOf(last, "pageAction.setIcon") : last.calls[i].tabId = t

\* the callback of setIcon ran and called setPopup and show for tab t
PopupShown(t) ==
    /\ last.handler = "IconSet"
    /\ \E i \in CallsOf(last, "pageAction.setPopup") : last.calls[i].tabId = t
    /\ \E i \in CallsOf(last, "pageAction.show") : last.calls[i].tabId = t

\* C20: once the page has replied with a status for a tab that completed a
\* request and loaded its top frame, setIcon is called for the tab with the
\* variant of its record that reflects the status, and setPopup and show are
\* eventually called for the tab.
C20_StatusReplyShowsIcon ==
    /\ [](\A t \in Tabs :
            StatusReplied(t) =>
                \A i \in CallsOf(last, "pageAction.setIcon") :
                    last.calls[i].path =
                        IconVariant(servedByCloudFlare(requests[t]),
                                    requests[t].SPDY = Bool(TRUE),
                                    isv6IP(requests[t]),
                                    servedByRailgun(requests[t])))
    /\ \A t \in Tabs : StatusReplied(t) ~> PopupShown(t)

====
